---- MODULE Spec2Model ----
(***************************************************************************)
(* Model of api/catalog/api/utils/waveform.py: the extension resolver, the *)
(* downloader, the audiowaveform invoker, the output normalizer and the    *)
(* cleanup of the temporary audio file.                                    *)
(*                                                                         *)
(* Strings are sequences of one-character strings.  Floats produced by     *)
(* round(x, 5) are integers counting units of 10^-5 (1.0 is 100000).       *)
(* An optional value is a sequence of length 0 (None) or 1.                *)
(***************************************************************************)
EXTENDS Integers, Sequences, FiniteSets, TLC

VARIABLES
    data,       \* normalizer: the parsed "data" array of the tool's JSON
    peaks,      \* normalizer: what process_waveform_output returned or raised
    url,        \* extension resolver: its argument
    ext,        \* extension resolver: what ext_from_url returned
    duration,   \* invoker: the duration argument
    pps,        \* invoker: the --pixels-per-second argument passed to the tool
    fs,         \* the files under TMP_DIR: file name -> content
    prev_fs,    \* the files under TMP_DIR before the last call
    last,       \* the last call made on the module and its outcome
    ncalls,     \* number of calls made so far
    runs        \* the pipeline runs: run -> its position and locals

vars == <<data, peaks, url, ext, duration, pps, fs, prev_fs, last, ncalls, runs>>

(***************************************************************************)
(* Bounds of the model.                                                    *)
(***************************************************************************)
MaxLen == 4
MaxSample == 3
MaxNegSample == 1
MaxUrlLen == 4
MaxDuration == 60
MaxCalls == 4

(***************************************************************************)
(* Generic helpers.                                                        *)
(***************************************************************************)
Range(s) == {s[i] : i \in 1..Len(s)}

SeqsUpTo(S, n) == UNION {[1..k -> S] : k \in 0..n}

None == <<>>

Some(x) == <<x>>

Pending == [exc |-> "pending", val |-> <<>>]

Returned(v) == [exc |-> "none", val |-> v]

Raised(e) == [exc |-> e, val |-> <<>>]

NotCalled == [called |-> FALSE, ret |-> None]

Called(r) == [called |-> TRUE, ret |-> r]

(***************************************************************************)
(* Output normalizer: process_waveform_output.                             *)
(***************************************************************************)
Scale == 100000

\* round(val / max_val, 5), in units of 10^-5; Python rounds an exactly
\* representable tie to the even neighbour.
Round5Floor(val, max_val) == (val * Scale) \div max_val

Round5(val, max_val) ==
    LET n == val * Scale
        q == n \div max_val
        r == n % max_val
    IN  IF 2 * r < max_val THEN q
        ELSE IF 2 * r > max_val THEN q + 1
        ELSE IF q % 2 = 0 THEN q ELSE q + 1

\* The for loop of lines 103-110: i is the 1-based position (idx = i - 1).
RECURSIVE CollectAllMax(_, _, _, _)
CollectAllMax(d, i, transformed_data, max_val) ==
    IF i > Len(d) THEN [transformed_data |-> transformed_data, max_val |-> max_val]
    ELSE LET val == d[i]
             m == IF val > max_val THEN val ELSE max_val
         IN  IF (i - 1) % 2 = 0
             THEN CollectAllMax(d, i + 1, transformed_data, m)
             ELSE CollectAllMax(d, i + 1, Append(transformed_data, val), m)

RECURSIVE CollectEven(_, _, _, _)
CollectEven(d, i, transformed_data, max_val) ==
    IF i > Len(d) THEN [transformed_data |-> transformed_data, max_val |-> max_val]
    ELSE LET val == d[i]
         IN  IF (i - 1) % 2 = 1
             THEN CollectEven(d, i + 1, transformed_data, max_val)
             ELSE CollectEven(d, i + 1, Append(transformed_data, val),
                              IF val > max_val THEN val ELSE max_val)

RECURSIVE Collect(_, _, _, _)
Collect(d, i, transformed_data, max_val) ==
    IF i > Len(d) THEN [transformed_data |-> transformed_data, max_val |-> max_val]
    ELSE LET val == d[i]
         IN  IF (i - 1) % 2 = 0
             THEN Collect(d, i + 1, transformed_data, max_val)
             ELSE Collect(d, i + 1, Append(transformed_data, val),
                          IF val > max_val THEN val ELSE max_val)

process_waveform_output(d) ==
    LET c == Collect(d, 1, <<>>, 0)
        t == c.transformed_data
    IN  IF t # <<>> /\ c.max_val = 0
        THEN Raised("ZeroDivisionError")
        ELSE Returned([k \in 1..Len(t) |-> Round5(t[k], c.max_val)])

ExampleData == <<5, 10, 3, 8, 1, 2>>

Samples == (0 - MaxNegSample)..MaxSample

DataInputs == SeqsUpTo(Samples, MaxLen) \cup {ExampleData}

Normalize ==
    /\ peaks = Pending
    /\ peaks' = process_waveform_output(data)
    /\ UNCHANGED <<data, url, ext, duration, pps, fs, prev_fs, last, ncalls, runs>>

(***************************************************************************)
(* Extension resolver: ext_from_url.                                       *)
(***************************************************************************)
\* str.split(sep): the segments between the separators, in order.
RECURSIVE SplitFrom(_, _, _, _, _)
SplitFrom(s, sep, i, cur, acc) ==
    IF i > Len(s) THEN Append(acc, cur)
    ELSE IF s[i] = sep
         THEN SplitFrom(s, sep, i + 1, <<>>, Append(acc, cur))
         ELSE SplitFrom(s, sep, i + 1, Append(cur, s[i]), acc)

Split(s, sep) == SplitFrom(s, sep, 1, <<>>, <<>>)

LastOf(parts) == parts[Len(parts)]

ext_from_url_whole(u) ==
    IF "." \in Range(u)
    THEN Some(<<".">> \o LastOf(Split(u, ".")))
    ELSE None

ext_from_url(u) ==
    LET file_name == LastOf(Split(u, "/"))
    IN  IF "." \in Range(file_name)
        THEN Some(<<".">> \o LastOf(Split(file_name, ".")))
        ELSE None

UrlChars == {"/", ".", "a", "b"}

ExampleUrl == <<"h","t","t","p","s",":","/","/","e","x","a","m","p","l","e",
                ".","c","o","m","/","s","o","u","n","d",".","m","p","3">>

HostOnlyUrl == <<"h","t","t","p","s",":","/","/","e","x","a","m","p","l","e",
                 ".","c","o","m","/","s","o","u","n","d">>

UrlInputs == SeqsUpTo(UrlChars, MaxUrlLen) \cup {ExampleUrl, HostOnlyUrl}

ResolveExt ==
    /\ ~ext.called
    /\ ext' = Called(ext_from_url(url))
    /\ UNCHANGED <<data, peaks, url, duration, pps, fs, prev_fs, last, ncalls, runs>>

(***************************************************************************)
(* Waveform invoker: the sampling density of generate_waveform.            *)
(***************************************************************************)
Million == 1000000

\* math.ceil(1e6 / duration)
PixelsPerSecondFloor(d) == Million \div d

PixelsPerSecond(d) ==
    IF Million % d = 0 THEN Million \div d ELSE (Million \div d) + 1

Durations == (1..MaxDuration) \cup {999, 1000, 999999, 1000000, 1000001, 3000000}

ComputePps ==
    /\ ~pps.called
    /\ pps' = Called(PixelsPerSecond(duration))
    /\ UNCHANGED <<data, peaks, url, ext, duration, fs, prev_fs, last, ncalls, runs>>

(***************************************************************************)
(* Downloader and cleanup: the files under TMP_DIR.                        *)
(***************************************************************************)
AudioPrefix == <<"a","u","d","i","o","-">>

NoneText == <<"N","o","n","e">>

Mp3Ext == <<".","m","p","3">>

WavExt == <<".","w","a","v">>

\* mimetypes.guess_extension: the standard table, for the types used here.
guess_extension(mimetype) ==
    CASE mimetype = "audio/mpeg"  -> Some(Mp3Ext)
      [] mimetype = "audio/x-wav" -> Some(WavExt)
      [] OTHER                    -> None

\* ext_from_url(url) or mimetypes.guess_extension(mimetype)
ResolveExtensionMimeFirst(u, mimetype) ==
    IF guess_extension(mimetype) # None
    THEN guess_extension(mimetype)
    ELSE ext_from_url(u)

ResolveExtension(u, mimetype) ==
    LET e == ext_from_url(u)
    IN  IF e # None /\ e[1] # <<>> THEN e ELSE guess_extension(mimetype)

\* f"audio-{identifier}{ext}"
FileNameNoIdentifier(identifier, e) == AudioPrefix \o e

FileName(identifier, e) == AudioPrefix \o identifier \o e

EmptyBody == 0

\* open(TMP_DIR.joinpath(file_name), "wb"): the file is created, or truncated.
OpenWb(files, file_name) ==
    [n \in DOMAIN files \cup {file_name} |->
        IF n = file_name THEN EmptyBody ELSE files[n]]

\* shutil.copyfileobj(res.raw, file): the body goes to the opened file; if the
\* name was unlinked in the meantime the data goes to the unlinked file.
CopyFileObj(files, file_name, body) ==
    IF file_name \in DOMAIN files
    THEN [files EXCEPT ![file_name] = body]
    ELSE files

download_audio_open_first(files, u, identifier, mimetype, body) ==
    LET e == ResolveExtension(u, mimetype)
        file_name == FileName(identifier, IF e = None THEN NoneText ELSE e[1])
        written == CopyFileObj(OpenWb(files, file_name), file_name, body)
    IN  IF e = None
        THEN [fs |-> written, ret |-> Raised("ValueError")]
        ELSE [fs |-> written, ret |-> Returned(file_name)]

download_audio(files, u, identifier, mimetype, body) ==
    LET e == ResolveExtension(u, mimetype)
    IN  IF e = None
        THEN [fs |-> files, ret |-> Raised("ValueError")]
        ELSE LET file_name == FileName(identifier, e[1])
             IN  [fs  |-> CopyFileObj(OpenWb(files, file_name), file_name, body),
                  ret |-> Returned(file_name)]

Remove(files, file_name) == [n \in DOMAIN files \ {file_name} |-> files[n]]

cleanup_no_exists_check(files, file_name) ==
    IF file_name \in DOMAIN files
    THEN [fs |-> Remove(files, file_name), ret |-> Returned(None)]
    ELSE [fs |-> files, ret |-> Raised("FileNotFoundError")]

cleanup(files, file_name) ==
    IF file_name \in DOMAIN files
    THEN [fs |-> Remove(files, file_name), ret |-> Returned(None)]
    ELSE [fs |-> files, ret |-> Returned(None)]

PlainIdentifier == <<"a","b","c","1","2","3">>

DottedIdentifier == PlainIdentifier \o Mp3Ext

Identifiers == {PlainIdentifier, DottedIdentifier}

CallUrls == {ExampleUrl, HostOnlyUrl}

MimeTypes == {"audio/mpeg", "audio/x-wav", "binary/octet-stream"}

Bodies == {1, 2}

\* Every name download_audio can produce here, and one it cannot.
FileNames ==
    {FileName(i, e) : i \in Identifiers, e \in {Mp3Ext, WavExt}}
        \cup {AudioPrefix}

NoCall == [op |-> "none", file_name |-> <<>>, removed |-> FALSE]

Summary(call) == [op |-> call.op, file_name |-> call.file_name,
                  removed |-> call.removed]

CallDownload ==
    /\ ncalls < MaxCalls
    /\ \E u \in CallUrls, i \in Identifiers, m \in MimeTypes, b \in Bodies :
          LET r == download_audio(fs, u, i, m, b)
          IN  /\ fs' = r.fs
              /\ last' = [op |-> "download_audio", url |-> u, identifier |-> i,
                          mimetype |-> m, body |-> b, file_name |-> r.ret.val,
                          removed |-> FALSE, ret |-> r.ret,
                          before |-> Summary(last)]
    /\ prev_fs' = fs
    /\ ncalls' = ncalls + 1
    /\ UNCHANGED <<data, peaks, url, ext, duration, pps, runs>>

CallCleanup ==
    /\ ncalls < MaxCalls
    /\ \E n \in FileNames :
          LET r == cleanup(fs, n)
          IN  /\ fs' = r.fs
              /\ last' = [op |-> "cleanup", url |-> <<>>, identifier |-> <<>>,
                          mimetype |-> "", body |-> EmptyBody, file_name |-> n,
                          removed |-> r.fs # fs, ret |-> r.ret,
                          before |-> Summary(last)]
    /\ prev_fs' = fs
    /\ ncalls' = ncalls + 1
    /\ UNCHANGED <<data, peaks, url, ext, duration, pps, runs>>

(***************************************************************************)
(* The pipeline: download_audio, generate_waveform, process_waveform_output *)
(* and cleanup, in that order, for each run; a stage that raises ends the  *)
(* run.  Concurrent runs share only the files under TMP_DIR.  A run        *)
(* downloads a body that is its own number.                                *)
(***************************************************************************)
Runs == {1, 2}

RunDurations == {10}

\* What the audiowaveform binary may print for a readable file.
ToolOutputs == {ExampleData, <<0, 0>>}

\* The arguments of the audiowaveform command line (lines 71-80).
generate_waveform_args(file_name, d) ==
    [input_filename |-> file_name, output_format |-> "json",
     pixels_per_second |-> PixelsPerSecond(d)]

NewRun(u, i, m, d) ==
    [pc |-> "download", url |-> u, identifier |-> i, mimetype |-> m,
     duration |-> d, file_name |-> None, args |-> None, consumed |-> EmptyBody,
     awf_out |-> <<>>, peaks |-> Pending, exc |-> "none"]

PipeVarsUnchanged ==
    UNCHANGED <<data, peaks, url, ext, duration, pps, prev_fs, last, ncalls>>

\* download_audio up to the open of line 55: the extension is resolved and
\* the file created, or ValueError ends the run.
DownloadOpen(r) ==
    /\ runs[r].pc = "download"
    /\ LET e == ResolveExtension(runs[r].url, runs[r].mimetype)
       IN  IF e = None
           THEN /\ runs' = [runs EXCEPT ![r].pc = "failed", ![r].exc = "ValueError"]
                /\ fs' = fs
           ELSE LET file_name == FileName(runs[r].identifier, e[1])
                IN  /\ runs' = [runs EXCEPT ![r].pc = "copy",
                                            ![r].file_name = Some(file_name)]
                    /\ fs' = OpenWb(fs, file_name)
    /\ PipeVarsUnchanged

\* download_audio from line 56: the body is copied and the name returned.
DownloadCopy(r) ==
    /\ runs[r].pc = "copy"
    /\ fs' = CopyFileObj(fs, runs[r].file_name[1], r)
    /\ runs' = [runs EXCEPT ![r].pc = "generate"]
    /\ PipeVarsUnchanged

\* generate_waveform: the binary reads the file and prints the waveform.
GenerateOk(r) ==
    /\ runs[r].pc = "generate"
    /\ runs[r].file_name[1] \in DOMAIN fs
    /\ \E out \in ToolOutputs :
          runs' = [runs EXCEPT
                     ![r].pc = "process",
                     ![r].args = Some(generate_waveform_args(runs[r].file_name[1],
                                                             runs[r].duration)),
                     ![r].consumed = fs[runs[r].file_name[1]],
                     ![r].awf_out = out]
    /\ fs' = fs
    /\ PipeVarsUnchanged

\* generate_waveform: the binary exits non-zero (always so when the input
\* file is missing); check=True raises CalledProcessError.
GenerateFail(r) ==
    /\ runs[r].pc = "generate"
    /\ runs' = [runs EXCEPT
                  ![r].pc = "failed",
                  ![r].args = Some(generate_waveform_args(runs[r].file_name[1],
                                                          runs[r].duration)),
                  ![r].exc = "CalledProcessError"]
    /\ fs' = fs
    /\ PipeVarsUnchanged

\* process_waveform_output on the captured output.
Process(r) ==
    /\ runs[r].pc = "process"
    /\ LET p == process_waveform_output(runs[r].awf_out)
       IN  IF p.exc = "none"
           THEN runs' = [runs EXCEPT ![r].pc = "cleanup", ![r].peaks = p]
           ELSE runs' = [runs EXCEPT ![r].pc = "failed", ![r].exc = p.exc]
    /\ fs' = fs
    /\ PipeVarsUnchanged

\* cleanup of the run's file.
Cleanup(r) ==
    /\ runs[r].pc = "cleanup"
    /\ fs' = cleanup(fs, runs[r].file_name[1]).fs
    /\ runs' = [runs EXCEPT ![r].pc = "done"]
    /\ PipeVarsUnchanged

(***************************************************************************)
(* Specifications.  Each one exercises one part of the module and leaves   *)
(* the state of the other parts at rest.                                   *)
(***************************************************************************)
NormIdle == data = <<>> /\ peaks = Pending

ExtIdle == url = <<>> /\ ext = NotCalled

PpsIdle == duration = 1 /\ pps = NotCalled

FsIdle == fs = <<>> /\ prev_fs = <<>> /\ last = NoCall /\ ncalls = 0

PipeIdle == runs = <<>>

NormInit ==
    /\ data \in DataInputs
    /\ peaks = Pending
    /\ ExtIdle /\ PpsIdle /\ FsIdle /\ PipeIdle

NormNext == Normalize

SpecNorm == NormInit /\ [][NormNext]_vars

ExtInit ==
    /\ url \in UrlInputs
    /\ ext = NotCalled
    /\ NormIdle /\ PpsIdle /\ FsIdle /\ PipeIdle

ExtNext == ResolveExt

SpecExt == ExtInit /\ [][ExtNext]_vars

PpsInit ==
    /\ duration \in Durations
    /\ pps = NotCalled
    /\ NormIdle /\ ExtIdle /\ FsIdle /\ PipeIdle

PpsNext == ComputePps

SpecPps == PpsInit /\ [][PpsNext]_vars

FsInit ==
    /\ FsIdle
    /\ NormIdle /\ ExtIdle /\ PpsIdle /\ PipeIdle

FsNext == CallDownload \/ CallCleanup

SpecFS == FsInit /\ [][FsNext]_vars

Init ==
    /\ runs \in [Runs -> {NewRun(u, i, m, d) :
                            u \in CallUrls, i \in Identifiers,
                            m \in MimeTypes, d \in RunDurations}]
    /\ fs = <<>> /\ prev_fs = <<>> /\ last = NoCall /\ ncalls = 0
    /\ NormIdle /\ ExtIdle /\ PpsIdle

Next ==
    \E r \in Runs :
        \/ DownloadOpen(r)
        \/ DownloadCopy(r)
        \/ GenerateOk(r)
        \/ GenerateFail(r)
        \/ Process(r)
        \/ Cleanup(r)

Spec == Init /\ [][Next]_vars

(***************************************************************************)
(* Properties of the output normalizer (specification SpecNorm).           *)
(***************************************************************************)
\* The values of data at odd 0-based indices: data[2i+1] is position 2(i+1).
Retained(d) == [k \in 1..(Len(d) \div 2) |-> d[2 * k]]

MaxOf(S) == CHOOSE x \in S : \A y \in S : y <= x

Abs(x) == IF x < 0 THEN 0 - x ELSE x

\* v (in units of 10^-5) is a nearest 5-digit value to x / m.
Nearest5(v, x, m) == 2 * Abs(v * m - x * Scale) <= m

NormalizedOk ==
    /\ peaks.exc = "none"
    /\ Len(peaks.val) = Len(data) \div 2
    /\ \A k \in 1..Len(peaks.val) : 0 <= peaks.val[k] /\ peaks.val[k] <= Scale
    /\ \E k \in 1..Len(peaks.val) : peaks.val[k] = Scale

\* C1 (as stated): for every non-empty even-length data holding at least one
\* positive value, the normalizer returns floor(n/2) values, all in [0, 1],
\* the largest being 1.0.
C1_Original ==
    (/\ peaks # Pending
     /\ Len(data) > 0
     /\ Len(data) % 2 = 0
     /\ \E i \in 1..Len(data) : data[i] > 0)
    => NormalizedOk

\* C1 (amended): for every non-empty even-length data whose odd-index values
\* are all non-negative and include at least one positive value, the
\* normalizer returns floor(n/2) values, all in [0, 1], the largest being 1.0.
C1_Amended ==
    (/\ peaks # Pending
     /\ Len(data) > 0
     /\ Len(data) % 2 = 0
     /\ \A k \in 1..(Len(data) \div 2) : data[2 * k] >= 0
     /\ \E k \in 1..(Len(data) \div 2) : data[2 * k] > 0)
    => NormalizedOk

C1_Witness ==
    /\ Len(data) = 4
    /\ data[1] < 0
    /\ data[2] > 0
    /\ data[4] > data[2]
    /\ NormalizedOk
    /\ peaks.val[1] > 0
    /\ peaks.val[1] < Scale

\* C2: a returned sequence holds, in order, one value per odd index of data:
\* element i is data[2i+1] divided by the largest retained value, rounded to
\* 5 decimal digits; data = [5, 10, 3, 8, 1, 2] yields [1.0, 0.8, 0.2].
C2_OddIndicesScaled ==
    peaks.exc = "none" =>
        /\ Len(peaks.val) = Len(data) \div 2
        /\ \A k \in 1..Len(peaks.val) :
              Nearest5(peaks.val[k], data[2 * k], MaxOf(Range(Retained(data))))
        /\ data = ExampleData => peaks.val = <<100000, 80000, 20000>>

C2_Witness ==
    /\ data = ExampleData
    /\ peaks = Returned(<<100000, 80000, 20000>>)

LastPos(s, c, from) ==
    LET P == {i \in from..Len(s) : s[i] = c}
    IN  IF P = {} THEN from - 1 ELSE MaxOf(P)

\* C3: ext_from_url looks only at the segment after the last "/": when that
\* segment holds a ".", the result is "." followed by what follows the
\* segment's last "."; otherwise it is None, whatever earlier segments hold.
C3_FinalSegmentOnly ==
    ext.called =>
        LET seg == LastPos(url, "/", 1) + 1
            dot == LastPos(url, ".", seg)
        IN  IF dot >= seg
            THEN ext.ret = Some(<<".">> \o SubSeq(url, dot + 1, Len(url)))
            ELSE ext.ret = None

C3_Witness ==
    /\ ext.called
    /\ url = HostOnlyUrl
    /\ ext.ret = None

OthersUnchanged(file_name) ==
    /\ DOMAIN fs \ {file_name} = DOMAIN prev_fs \ {file_name}
    /\ \A n \in DOMAIN fs \ {file_name} : fs[n] = prev_fs[n]

\* C4: a successful download_audio returns "audio-" + identifier + ext and
\* has written the body under that name, where ext is the URL's extension
\* whenever the URL has one and the one guessed from the MIME type only
\* otherwise; the example URL with identifier abc123 gives audio-abc123.mp3
\* whatever the content type.
C4_DownloadFileName ==
    (last.op = "download_audio" /\ last.ret.exc = "none") =>
        LET from_url == ext_from_url(last.url)
            e == IF from_url # None THEN from_url
                 ELSE guess_extension(last.mimetype)
        IN  /\ e # None
            /\ last.ret.val = AudioPrefix \o last.identifier \o e[1]
            /\ last.ret.val \in DOMAIN fs
            /\ fs[last.ret.val] = last.body
            /\ OthersUnchanged(last.ret.val)
            /\ (last.url = ExampleUrl /\ last.identifier = PlainIdentifier)
                  => last.ret.val = AudioPrefix \o PlainIdentifier \o Mp3Ext

C4_Witness ==
    /\ last.op = "download_audio"
    /\ last.url = ExampleUrl
    /\ last.identifier = PlainIdentifier
    /\ last.mimetype = "audio/x-wav"
    /\ last.ret = Returned(AudioPrefix \o PlainIdentifier \o Mp3Ext)
    /\ fs[AudioPrefix \o PlainIdentifier \o Mp3Ext] = last.body

\* C9: when neither the URL's final segment nor the MIME type yields an
\* extension, download_audio raises, returns no file name and leaves the
\* files under the temp root as they were.
C9_NoExtensionNoFile ==
    (/\ last.op = "download_audio"
     /\ ext_from_url(last.url) = None
     /\ guess_extension(last.mimetype) = None)
    => /\ last.ret = Raised("ValueError")
       /\ fs = prev_fs

C9_Witness ==
    /\ last.op = "download_audio"
    /\ last.url = HostOnlyUrl
    /\ last.mimetype = "binary/octet-stream"
    /\ last.ret.exc = "ValueError"
    /\ prev_fs # <<>>
    /\ fs = prev_fs

\* C7: cleanup deletes the named file if it exists and does nothing
\* otherwise; it raises nothing, leaves every other file unchanged, and a
\* second call with the same file name changes nothing.
C7_CleanupIdempotent ==
    last.op = "cleanup" =>
        /\ last.ret = Returned(None)
        /\ last.file_name \notin DOMAIN fs
        /\ OthersUnchanged(last.file_name)
        /\ (last.before.op = "cleanup" /\ last.before.file_name = last.file_name)
              => fs = prev_fs

C7_Witness ==
    /\ last.op = "cleanup"
    /\ last.before.op = "cleanup"
    /\ last.before.file_name = last.file_name
    /\ last.before.removed
    /\ ~last.removed
    /\ last.ret = Returned(None)
    /\ fs = prev_fs
    /\ fs # <<>>

(***************************************************************************)
(* Properties of the pipeline (specification Spec).                        *)
(***************************************************************************)
Terminated(r) == runs[r].pc \in {"done", "failed"}

SoleIdentifier(r) ==
    \A q \in Runs \ {r} : runs[q].identifier # runs[r].identifier

C6_DistinctIdentifiersNoCollision ==
    \A r \in Runs :
        SoleIdentifier(r) =>
            /\ \A q \in Runs \ {r} :
                  runs[r].file_name # None => runs[q].file_name # runs[r].file_name
            /\ runs[r].pc = "copy" =>
                  /\ runs[r].file_name[1] \in DOMAIN fs
                  /\ fs[runs[r].file_name[1]] = EmptyBody
            /\ runs[r].pc = "generate" =>
                  /\ runs[r].file_name[1] \in DOMAIN fs
                  /\ fs[runs[r].file_name[1]] = r
            /\ runs[r].pc \in {"process", "cleanup", "done"} =>
                  runs[r].consumed = r

C6_Witness ==
    /\ runs[1].identifier # runs[2].identifier
    /\ runs[1].url = runs[2].url
    /\ runs[1].mimetype = runs[2].mimetype
    /\ runs[1].pc = "done"
    /\ runs[1].consumed = 1
    /\ runs[2].pc = "generate"
    /\ runs[2].file_name[1] \in DOMAIN fs
    /\ fs[runs[2].file_name[1]] = 2

====
